---- MODULE Spec2Model ----
(***************************************************************************)
(* Model of notebooks/demo-utility-budgetconstraint.ipynb: Cobb-Douglas    *)
(* utility maximisation under a linear budget constraint.                  *)
(*                                                                         *)
(* Numbers.  The notebook computes with Python scalars.  The model keeps   *)
(* the exact real value of every expression the notebook evaluates: a      *)
(* Python number is a record [t, n, d, k] that stands for                  *)
(*        sign(n) * (|n| / d) ^ (1 / k)                                    *)
(* in canonical form (n/d in lowest terms, k the least root index), so     *)
(* equality of records is equality of the real values.  Rounding of the    *)
(* 64-bit floats is not modelled: an equation of the model is an equation  *)
(* of the exact values, which the floats meet up to rounding.  What Python *)
(* does outside the positive reals is modelled as Python 3 does it:        *)
(* division by zero and 0 ** negative raise ZeroDivisionError, a negative  *)
(* base to a fractional power gives a complex number.                      *)
(***************************************************************************)
EXTENDS Integers, Sequences, FiniteSets, TLC

VARIABLES
    globals,    \* module-level alpha, beta, p1, p2, m of the plot cell
    widget,     \* current values of the five sliders made by @interact
    fig,        \* what the last run of interact_figure computed and drew
    call,       \* the last call of one of the functions made from a cell
    kept        \* an earlier find_optimal call, remembered for comparison

vars == <<globals, widget, fig, call, kept>>

----------------------------------------------------------------------------
(* Integer helpers of the number representation.                           *)

Abs(i) == IF i < 0 THEN -i ELSE i

Lesser(a, b) == IF a < b THEN a ELSE b

Sgn(i) == IF i < 0 THEN -1 ELSE IF i = 0 THEN 0 ELSE 1

RECURSIVE Gcd(_, _)
Gcd(a, b) == IF b = 0 THEN a ELSE Gcd(b, a % b)

Lcm(a, b) == (a \div Gcd(a, b)) * b

RECURSIVE IPow(_, _)
IPow(b, e) == IF e = 0 THEN 1 ELSE b * IPow(b, e - 1)

\* r^g <= n for r >= 1, computed without forming r^g.
RECURSIVE PowLeq(_, _, _)
PowLeq(r, g, n) == IF g = 0 THEN 1 <= n ELSE r <= n /\ PowLeq(r, g - 1, n \div r)

\* The largest r in lo..hi with r^g <= n (lo^g <= n is given).
RECURSIVE FloorRoot(_, _, _, _)
FloorRoot(n, g, lo, hi) ==
    IF lo = hi THEN lo
    ELSE LET mid == (lo + hi + 1) \div 2
         IN  IF PowLeq(mid, g, n) THEN FloorRoot(n, g, mid, hi)
             ELSE FloorRoot(n, g, lo, mid - 1)

\* The exact g-th root of n >= 1, or 0 when n is no perfect g-th power.
IRoot(n, g) ==
    IF g = 1 \/ n = 1 THEN n
    ELSE LET r == FloorRoot(n, g, 1, n)
         IN  IF IPow(r, g) = n THEN r ELSE 0

----------------------------------------------------------------------------
(* Python numbers and the outcomes of evaluating an expression.            *)

Num(n, d, k) == [t |-> "num", n |-> n, d |-> d, k |-> k]

Complex == [t |-> "complex", n |-> 0, d |-> 1, k |-> 1]

ZeroDivisionError == [t |-> "ZeroDivisionError", n |-> 0, d |-> 1, k |-> 1]

\* A value the representation cannot hold (a sum of two irrational roots):
\* evaluating it stops the model checker instead of giving a wrong number.
Unrepresentable == CHOOSE v \in {} : TRUE

IsNum(x) == x.t = "num"

IsErr(x) == x.t = "ZeroDivisionError"

\* (n/d)^(1/k) for coprime n, d >= 1 with the root index made least: the
\* largest divisor g of k, tried from g downwards, for which n and d are
\* perfect g-th powers is taken out.
RECURSIVE Reduce(_, _, _, _)
Reduce(n, d, k, g) ==
    IF g = 1 THEN Num(n, d, k)
    ELSE IF k % g # 0 THEN Reduce(n, d, k, g - 1)
    ELSE LET rn == IRoot(n, g)
         IN  IF rn = 0 THEN Reduce(n, d, k, g - 1)
             ELSE LET rd == IRoot(d, g)
                  IN  IF rd = 0 THEN Reduce(n, d, k, g - 1)
                      ELSE Num(rn, rd, k \div g)

\* s * r for a sign s and a positive number r.
Signed(s, r) == Num(s * r.n, r.d, r.k)

\* sign(n) * (|n|/d)^(1/k), d > 0, in canonical form.
Norm(n, d, k) ==
    IF n = 0 THEN Num(0, 1, 1)
    ELSE Signed(Sgn(n),
                Reduce(Abs(n) \div Gcd(Abs(n), d), d \div Gcd(Abs(n), d), k, k))

Rat(n, d) == IF d < 0 THEN Norm(-n, -d, 1) ELSE Norm(n, d, 1)

Whole(i) == Num(i, 1, 1)

IsZero(x) == IsNum(x) /\ x.n = 0

IsRational(x) == IsNum(x) /\ x.k = 1

Positive(x) == IsNum(x) /\ x.n > 0

\* x * y
Mul(x, y) ==
    IF IsErr(x) THEN x
    ELSE IF IsErr(y) THEN y
    ELSE IF ~IsNum(x) \/ ~IsNum(y) THEN Complex
    ELSE IF IsZero(x) \/ IsZero(y) THEN Whole(0)
    ELSE LET L  == Lcm(x.k, y.k)
             a  == IPow(Abs(x.n), L \div x.k)
             b  == IPow(x.d, L \div x.k)
             c  == IPow(Abs(y.n), L \div y.k)
             e  == IPow(y.d, L \div y.k)
             g1 == Gcd(a, e)
             g2 == Gcd(c, b)
         IN  Norm(Sgn(x.n) * Sgn(y.n) * (a \div g1) * (c \div g2),
                  (b \div g2) * (e \div g1),
                  L)

\* x / y: true division, which raises on a zero divisor.
Div(x, y) ==
    IF IsErr(x) THEN x
    ELSE IF IsErr(y) THEN y
    ELSE IF IsZero(y) THEN ZeroDivisionError
    ELSE IF ~IsNum(x) \/ ~IsNum(y) THEN Complex
    ELSE Mul(x, Num(Sgn(y.n) * y.d, Abs(y.n), y.k))

\* x + y
Add(x, y) ==
    IF IsErr(x) THEN x
    ELSE IF IsErr(y) THEN y
    ELSE IF ~IsNum(x) \/ ~IsNum(y) THEN Complex
    ELSE IF IsZero(x) THEN y
    ELSE IF IsZero(y) THEN x
    ELSE IF x.k = 1 /\ y.k = 1
         THEN Norm(x.n * y.d + y.n * x.d, x.d * y.d, 1)
    ELSE Unrepresentable

\* x - y
Sub(x, y) ==
    IF IsNum(y) THEN Add(x, Num(-y.n, y.d, y.k)) ELSE Add(x, y)

\* x ** e, for an exponent e that is a rational number.
Pow(x, e) ==
    IF IsErr(x) THEN x
    ELSE IF IsErr(e) THEN e
    ELSE IF ~IsNum(x) \/ ~IsNum(e) THEN Complex
    ELSE IF e.k # 1 THEN Unrepresentable
    ELSE IF e.n = 0 THEN Whole(1)
    ELSE IF x.n = 0 THEN (IF e.n > 0 THEN Whole(0) ELSE ZeroDivisionError)
    ELSE IF x.n < 0 /\ (e.d # 1 \/ x.k # 1) THEN Complex
    ELSE LET g == Gcd(Abs(e.n), x.k * e.d)
             p == Abs(e.n) \div g
             r == (x.k * e.d) \div g
             s == IF x.n < 0 /\ p % 2 = 1 THEN -1 ELSE 1
         IN  IF e.n > 0
             THEN Norm(s * IPow(Abs(x.n), p), IPow(x.d, p), r)
             ELSE Norm(s * IPow(x.d, p), IPow(Abs(x.n), p), r)

----------------------------------------------------------------------------
(* The functions of the notebook.                                          *)

utility(x1, alpha, x2, beta) == Mul(Pow(x1, alpha), Pow(x2, beta))

\* isoquant with the exponent beta written for 1/beta.
isoquant_beta(x1, alpha, beta, u) == Pow(Div(u, Pow(x1, alpha)), beta)

isoquant(x1, alpha, beta, u) == Pow(Div(u, Pow(x1, alpha)), Div(Whole(1), beta))

\* budgetconst with the slope added instead of subtracted.
budgetconst_plus(m, p1, p2, x1) == Add(Div(m, p2), Mul(Div(p1, p2), x1))

budgetconst(m, p1, p2, x1) == Sub(Div(m, p2), Mul(Div(p1, p2), x1))

\* What a call gives back: the tuple it returns, or the exception it raises.
Return(x1, x2, u) == [raised |-> "", x1 |-> x1, x2 |-> x2, u |-> u]

Raise(e) == [raised |-> e.t, x1 |-> Whole(0), x2 |-> Whole(0), u |-> Whole(0)]

\* The three assignments of find_optimal run in order: the first that raises
\* ends the call, otherwise the tuple is returned.
Outcome(x1, x2, u) ==
    IF IsErr(x2) THEN Raise(x2)
    ELSE IF IsErr(x1) THEN Raise(x1)
    ELSE IF IsErr(u) THEN Raise(u)
    ELSE Return(x1, x2, u)

\* find_optimal with the exponents exchanged in the ratio alpha/beta.
find_optimal_swapped(p1, p2, alpha, beta, m) ==
    LET x2 == Div(m, Add(Mul(Div(beta, alpha), p2), p2))
        x1 == Mul(Mul(Div(beta, alpha), Div(p2, p1)), x2)
        u  == utility(x1, alpha, x2, beta)
    IN  Outcome(x1, x2, u)

\* find_optimal with the price ratio p2/p1 left out of x1.
find_optimal_noratio(p1, p2, alpha, beta, m) ==
    LET x2 == Div(m, Add(Mul(Div(alpha, beta), p2), p2))
        x1 == Mul(Div(alpha, beta), x2)
        u  == utility(x1, alpha, x2, beta)
    IN  Outcome(x1, x2, u)

\* find_optimal with p2*p1 written for p2/p1.
find_optimal_mulprice(p1, p2, alpha, beta, m) ==
    LET x2 == Div(m, Add(Mul(Div(alpha, beta), p2), p2))
        x1 == Mul(Mul(Div(alpha, beta), Mul(p2, p1)), x2)
        u  == utility(x1, alpha, x2, beta)
    IN  Outcome(x1, x2, u)

\* find_optimal with the closed form simplified so that nothing is divided
\* by beta: x2 = m*beta/(p2*(alpha+beta)), x1 = m*alpha/(p1*(alpha+beta)).
find_optimal_simplified(p1, p2, alpha, beta, m) ==
    LET x2 == Div(Mul(m, beta), Mul(p2, Add(alpha, beta)))
        x1 == Div(Mul(m, alpha), Mul(p1, Add(alpha, beta)))
        u  == utility(x1, alpha, x2, beta)
    IN  Outcome(x1, x2, u)

\* find_optimal with the price ratio of x1 upside down, p1/p2 for p2/p1.
find_optimal_invratio(p1, p2, alpha, beta, m) ==
    LET x2 == Div(m, Add(Mul(Div(alpha, beta), p2), p2))
        x1 == Mul(Mul(Div(alpha, beta), Div(p1, p2)), x2)
        u  == utility(x1, alpha, x2, beta)
    IN  Outcome(x1, x2, u)

\* find_optimal with x2 written as the derivation cell prints it, p2 added
\* after the division instead of inside the divisor.
find_optimal_asprinted(p1, p2, alpha, beta, m) ==
    LET x2 == Add(Div(m, Mul(Div(alpha, beta), p2)), p2)
        x1 == Mul(Mul(Div(alpha, beta), Div(p2, p1)), x2)
        u  == utility(x1, alpha, x2, beta)
    IN  Outcome(x1, x2, u)

find_optimal(p1, p2, alpha, beta, m) ==
    LET x2 == Div(m, Add(Mul(Div(alpha, beta), p2), p2))
        x1 == Mul(Mul(Div(alpha, beta), Div(p2, p1)), x2)
        u  == utility(x1, alpha, x2, beta)
    IN  Outcome(x1, x2, u)

\* The two formulas of the markdown cell "Finding Optimal Point":
\* x1 = (alpha p2)/(beta p1) x2  and  x2 = M/((alpha/beta) p2) + p2.
derivation_x1(alpha, beta, p1, p2, x2) ==
    Mul(Div(Mul(alpha, p2), Mul(beta, p1)), x2)

derivation_x2(alpha, beta, p2, M) == Add(Div(M, Mul(Div(alpha, beta), p2)), p2)

----------------------------------------------------------------------------
(* The values the plot cell assigns at module level, and the slider ranges *)
(* of @interact.                                                           *)

DefaultP1 == 1

DefaultP2 == 1

DefaultM == 10

\* alpha = 0.5 and beta = 0.5
DefaultAlpha == Rat(1, 2)

DefaultBeta == Rat(1, 2)

Defaults ==
    [alpha |-> DefaultAlpha, beta |-> DefaultBeta,
     p1 |-> Whole(DefaultP1), p2 |-> Whole(DefaultP2), m |-> Whole(DefaultM)]

----------------------------------------------------------------------------
(* Bounds of the model, and the inputs drawn within them.                  *)

MaxPrice == 2

MaxIncome == 3

MaxPoint == 3

MaxLevel == 2

MaxScale == 2

GridDen == 2

\* Exponents of the utility function: above, at and below 1, with sums
\* alpha + beta on both sides of 1.
Exponents == {Rat(1, 2), Whole(1), Whole(2)}

Prices == {Whole(i) : i \in 1..MaxPrice}

Incomes == {Whole(i) : i \in 1..MaxIncome} \cup {Whole(DefaultM)}

\* Inputs outside the domain of the optimiser: zero and negative numbers.
NonPositive == {Whole(0), Whole(-1)}

\* Sample points x1 of the curves and target utility levels u; the levels
\* include irrational ones (square roots).
Points == {Rat(n, d) : n \in 1..MaxPoint, d \in 1..2}

Levels == {Norm(n, d, k) : n \in 1..MaxLevel, d \in 1..MaxLevel, k \in 1..2}

NoCall == [fn |-> "none"]

NoFig == [drawn |-> FALSE]

\* A call typed into a cell and not yet run.
Pending(fn, args) == [fn |-> fn, args |-> args, done |-> FALSE]

FindOptimalInputs ==
    [p1 : Prices \cup NonPositive, p2 : Prices \cup NonPositive,
     alpha : Exponents \cup NonPositive, beta : Exponents \cup NonPositive,
     m : Incomes \cup NonPositive]

IsoquantInputs ==
    [x1 : Points \cup NonPositive, alpha : Exponents,
     beta : Exponents \cup {Whole(0)}, u : Levels]

BudgetconstInputs ==
    [m : Incomes \cup NonPositive, p1 : Prices \cup NonPositive,
     p2 : Prices \cup NonPositive, x1 : Points \cup NonPositive]

UtilityInputs ==
    [x1 : Points \cup NonPositive, alpha : Exponents,
     x2 : Points \cup NonPositive, beta : Exponents]

----------------------------------------------------------------------------
(* Calls of the functions made directly from a notebook cell: the cell     *)
(* holds one call with its arguments, and running it gives the result.     *)

Finish(ret) ==
    /\ call' = [fn |-> call.fn, args |-> call.args, done |-> TRUE, ret |-> ret]
    /\ UNCHANGED <<globals, widget, fig, kept>>

CallFindOptimal ==
    /\ call.fn = "find_optimal" /\ ~call.done
    /\ Finish(find_optimal(call.args.p1, call.args.p2, call.args.alpha,
                           call.args.beta, call.args.m))

CallIsoquant ==
    /\ call.fn = "isoquant" /\ ~call.done
    /\ Finish(isoquant(call.args.x1, call.args.alpha, call.args.beta, call.args.u))

CallBudgetconst ==
    /\ call.fn = "budgetconst" /\ ~call.done
    /\ Finish(budgetconst(call.args.m, call.args.p1, call.args.p2, call.args.x1))

CallUtility ==
    /\ call.fn = "utility" /\ ~call.done
    /\ Finish(utility(call.args.x1, call.args.alpha, call.args.x2, call.args.beta))

InitCall ==
    /\ globals = Defaults
    /\ widget = Defaults
    /\ fig = NoFig
    /\ kept = NoCall
    /\ call \in {Pending("find_optimal", a) : a \in FindOptimalInputs}
          \cup {Pending("isoquant", a) : a \in IsoquantInputs}
          \cup {Pending("budgetconst", a) : a \in BudgetconstInputs}
          \cup {Pending("utility", a) : a \in UtilityInputs}

NextCall == CallFindOptimal \/ CallIsoquant \/ CallBudgetconst \/ CallUtility

SpecCall == InitCall /\ [][NextCall]_vars

----------------------------------------------------------------------------
(* The interactive plot: @interact makes one slider per parameter and runs *)
(* interact_figure with the current slider values, once when the cell is   *)
(* run and again after every change of a slider.                           *)

\* Slider ranges of @interact: alpha, beta from 0.01 to 0.99 by 0.01 (held
\* in hundredths), p1, p2 from 1 to 10 by 1, m from 1 to 24 by 1.
ExpMin == 1

ExpMax == 99

PriceMin == 1

PriceMax == 10

IncomeMin == 1

IncomeMax == 24

\* np.arange(0.1, 10, 0.1): the samples 0.1, 0.2, ..., 9.9, held in tenths.
SampleFirst == 1

SampleLast == 99

\* The part of the ranges the model moves the sliders over.
MaxSliderPrice == 2

MaxSliderIncome == 2

MaxSample == 2

ExpTicks == {t \in ExpMin..ExpMax : t \in {25, 50, 75}}

\* Sliders whose ranges start at 0 instead of 0.01 and 1.
SliderValues_fromzero ==
    [alpha |-> {Rat(t, 100) : t \in ExpTicks \cup {0}},
     beta  |-> {Rat(t, 100) : t \in ExpTicks \cup {0}},
     p1    |-> {Whole(i) : i \in 0..Lesser(MaxSliderPrice, PriceMax)},
     p2    |-> {Whole(i) : i \in 0..Lesser(MaxSliderPrice, PriceMax)},
     m     |-> {Whole(i) : i \in 0..Lesser(MaxSliderIncome, IncomeMax)}
                 \cup {Whole(DefaultM)}]

SliderValues ==
    [alpha |-> {Rat(t, 100) : t \in ExpTicks},
     beta  |-> {Rat(t, 100) : t \in ExpTicks},
     p1    |-> {Whole(i) : i \in PriceMin..Lesser(MaxSliderPrice, PriceMax)},
     p2    |-> {Whole(i) : i \in PriceMin..Lesser(MaxSliderPrice, PriceMax)},
     m     |-> {Whole(i) : i \in IncomeMin..Lesser(MaxSliderIncome, IncomeMax)}
                 \cup {Whole(DefaultM)}]

\* The model evaluates the curves at the first MaxSample samples.
Samples == {Rat(j, 10) : j \in SampleFirst..Lesser(MaxSample, SampleLast)}

\* The curves interact_figure samples and plots around the optimum opt.
Drawn(alpha, beta, p1, p2, m, opt) ==
    IF opt.raised # ""
    THEN [drawn |-> FALSE, opt |-> opt,
          args |-> [p1 |-> p1, p2 |-> p2, alpha |-> alpha, beta |-> beta, m |-> m]]
    ELSE [drawn |-> TRUE, opt |-> opt,
          args |-> [p1 |-> p1, p2 |-> p2, alpha |-> alpha, beta |-> beta, m |-> m],
          x2a |-> [x1 \in Samples |-> isoquant(x1, alpha, beta, opt.u)],
          x2b |-> [x1 \in Samples |-> budgetconst(m, p1, p2, x1)]]

\* interact_figure handing its arguments to find_optimal in its own order
\* (alpha, beta, p1, p2, m) instead of find_optimal's (p1, p2, alpha, beta, m).
Figure_ownorder(alpha, beta, p1, p2, m) ==
    Drawn(alpha, beta, p1, p2, m, find_optimal(alpha, beta, p1, p2, m))

\* What interact_figure computes from its arguments and hands to the plot.
Figure(alpha, beta, p1, p2, m) ==
    Drawn(alpha, beta, p1, p2, m, find_optimal(p1, p2, alpha, beta, m))

\* interact_figure bound to module-level names, as if it declared them global.
interact_figure_global(alpha, beta, p1, p2, m) ==
    /\ fig' = Figure(alpha, beta, p1, p2, m)
    /\ globals' = [alpha |-> alpha, beta |-> beta, p1 |-> p1, p2 |-> p2, m |-> m]

interact_figure(alpha, beta, p1, p2, m) ==
    /\ fig' = Figure(alpha, beta, p1, p2, m)
    /\ UNCHANGED globals

\* The optimiser call of the figure now shown, as a call record.
Shown == [fn |-> "find_optimal", args |-> fig.args, ret |-> fig.opt]

\* The user moves one slider; the callback runs with the new values.  The
\* call made for the first figure is noted down when that figure is replaced.
SliderChange(name, v) ==
    /\ v # widget[name]
    /\ widget' = [widget EXCEPT ![name] = v]
    /\ interact_figure(widget'.alpha, widget'.beta, widget'.p1, widget'.p2,
                       widget'.m)
    /\ kept' = IF kept = NoCall THEN Shown ELSE kept
    /\ UNCHANGED call

Init ==
    /\ globals = Defaults
    /\ widget = Defaults
    /\ fig = Figure(globals.alpha, globals.beta, globals.p1, globals.p2, globals.m)
    /\ call = NoCall
    /\ kept = NoCall

Next ==
    \E name \in {"alpha", "beta", "p1", "p2", "m"} :
        \E v \in SliderValues[name] : SliderChange(name, v)

Spec == Init /\ [][Next]_vars

----------------------------------------------------------------------------
(* Order of two real numbers of the representation, and the bundles the    *)
(* claims quantify over.                                                   *)

\* x <= y for x, y > 0: compare the L-th powers, L a common root index.
LeqPos(x, y) ==
    LET L == Lcm(x.k, y.k)
    IN  IPow(x.n, L \div x.k) * IPow(y.d, L \div y.k)
          <= IPow(y.n, L \div y.k) * IPow(x.d, L \div x.k)

Leq(x, y) ==
    IF x.n <= 0 /\ y.n >= 0 THEN TRUE
    ELSE IF x.n >= 0 THEN y.n > 0 /\ LeqPos(x, y)
    ELSE LeqPos(Num(-y.n, y.d, y.k), Num(-x.n, x.d, x.k))

Done(fn) == call.fn = fn /\ call.done

AllPositive(a) ==
    Positive(a.p1) /\ Positive(a.p2) /\ Positive(a.alpha) /\ Positive(a.beta)
      /\ Positive(a.m)

SomeNonPositive(a) == ~AllPositive(a)

Cost(y1, y2, p1, p2) == Add(Mul(p1, y1), Mul(p2, y2))

\* Quantities y >= 0 on a grid of step 1/GridDen, up to MaxIncome.
Grid == {Rat(j, GridDen) : j \in 0..(GridDen * MaxIncome)}

Scales == {Rat(n, d) : n \in 1..MaxScale, d \in 1..MaxScale}

----------------------------------------------------------------------------
(* C1: for positive alpha, beta, p1, p2, m the bundle find_optimal returns *)
(* is affordable and no affordable bundle (y1, y2) >= 0 gives more utility *)
(* than the returned u.                                                    *)
C1_UtilityMaximizing ==
    (Done("find_optimal") /\ AllPositive(call.args)) =>
        LET a == call.args
            r == call.ret
        IN  /\ r.raised = ""
            /\ Leq(Whole(0), r.x1) /\ Leq(Whole(0), r.x2)
            /\ Leq(Cost(r.x1, r.x2, a.p1, a.p2), a.m)
            /\ \A y1 \in Grid, y2 \in Grid :
                  Leq(Cost(y1, y2, a.p1, a.p2), a.m) =>
                      Leq(utility(y1, a.alpha, y2, a.beta), r.u)

\* An optimum with unequal exponents and unequal prices has been computed.
C1_Witness ==
    /\ Done("find_optimal")
    /\ call.args = [p1 |-> Whole(2), p2 |-> Whole(1), alpha |-> Whole(2),
                    beta |-> Rat(1, 2), m |-> Whole(3)]
    /\ call.ret.raised = ""

(* C2: budget exhaustion: for positive inputs the returned bundle costs    *)
(* exactly m, x1*p1 + x2*p2 = m.                                           *)
C2_BudgetExhaustion ==
    (Done("find_optimal") /\ AllPositive(call.args)) =>
        /\ call.ret.raised = ""
        /\ Add(Mul(call.ret.x1, call.args.p1), Mul(call.ret.x2, call.args.p2))
             = call.args.m

C2_Witness ==
    /\ Done("find_optimal")
    /\ AllPositive(call.args)
    /\ call.args.p1 # call.args.p2
    /\ call.args.alpha # call.args.beta
    /\ ~IsRational(call.ret.u)

(* C3: find_optimal rejects every call in which one of alpha, beta, p1,    *)
(* p2, m is zero or negative: the call raises and returns no bundle.       *)
C3_RejectsNonPositive ==
    (Done("find_optimal") /\ SomeNonPositive(call.args)) =>
        call.ret.raised # ""

(* C4: find_optimal with beta = 0 and the other inputs positive raises an  *)
(* error; it returns no bundle.                                            *)
C4_BetaZeroRaises ==
    (/\ Done("find_optimal")
     /\ IsZero(call.args.beta)
     /\ Positive(call.args.p1) /\ Positive(call.args.p2)
     /\ Positive(call.args.alpha) /\ Positive(call.args.m)) =>
        call.ret.raised = "ZeroDivisionError"

C4_Witness ==
    /\ Done("find_optimal")
    /\ IsZero(call.args.beta)
    /\ Positive(call.args.p1) /\ Positive(call.args.p2)
    /\ Positive(call.args.alpha) /\ Positive(call.args.m)
    /\ call.ret.raised = "ZeroDivisionError"

(* C5: for positive inputs the isoquant of the returned utility u and the  *)
(* budget line meet at the optimum: isoquant(x1, alpha, beta, u) =         *)
(* budgetconst(m, p1, p2, x1) = x2.                                        *)
C5_IsoquantBudgetMeet ==
    (Done("find_optimal") /\ AllPositive(call.args)) =>
        LET a == call.args
            r == call.ret
        IN  /\ r.raised = ""
            /\ isoquant(r.x1, a.alpha, a.beta, r.u) = r.x2
            /\ budgetconst(a.m, a.p1, a.p2, r.x1) = r.x2

C5_Witness ==
    /\ Done("find_optimal")
    /\ call.args = [p1 |-> Whole(1), p2 |-> Whole(2), alpha |-> Rat(1, 2),
                    beta |-> Whole(2), m |-> Whole(3)]
    /\ call.ret.raised = ""
    /\ ~IsRational(call.ret.u)

(* C6: scaling invariance: for positive inputs and every c > 0 the ratio   *)
(* x1/x2 of find_optimal(c*p1, c*p2, alpha, beta, m) equals the ratio      *)
(* x1/x2 of find_optimal(p1, p2, alpha, beta, m).                          *)
C6_ScalingInvariance ==
    (Done("find_optimal") /\ AllPositive(call.args)) =>
        LET a == call.args
            r == call.ret
        IN  \A c \in Scales :
                LET s == find_optimal(Mul(c, a.p1), Mul(c, a.p2),
                                      a.alpha, a.beta, a.m)
                IN  /\ r.raised = "" /\ s.raised = ""
                    /\ Div(s.x1, s.x2) = Div(r.x1, r.x2)

C6_Witness ==
    /\ Done("find_optimal")
    /\ AllPositive(call.args)
    /\ call.args.p1 # call.args.p2
    /\ call.args.alpha # call.args.beta
    /\ \E c \in Scales : c # Whole(1)
    /\ call.ret.raised = ""

(* C7: with alpha = beta (all inputs positive) income is split equally:    *)
(* x1 = m/(2*p1), x2 = m/(2*p2).  alpha = beta = 0.5, p1 = p2 = 1, m = 10  *)
(* gives (5, 5, 5); alpha = beta = 0.5, p1 = 2, p2 = 1, m = 10 gives       *)
(* x1 = 2.5, x2 = 5 and u with u*u = 12.5.                                 *)
C7_EqualExponents ==
    Done("find_optimal") =>
        LET a == call.args
            r == call.ret
        IN  /\ (AllPositive(a) /\ a.alpha = a.beta) =>
                  /\ r.raised = ""
                  /\ r.x1 = Div(a.m, Mul(Whole(2), a.p1))
                  /\ r.x2 = Div(a.m, Mul(Whole(2), a.p2))
            /\ a = [p1 |-> Whole(1), p2 |-> Whole(1), alpha |-> Rat(1, 2),
                    beta |-> Rat(1, 2), m |-> Whole(10)] =>
                  r = Return(Whole(5), Whole(5), Whole(5))
            /\ a = [p1 |-> Whole(2), p2 |-> Whole(1), alpha |-> Rat(1, 2),
                    beta |-> Rat(1, 2), m |-> Whole(10)] =>
                  /\ r.raised = ""
                  /\ r.x1 = Rat(5, 2) /\ r.x2 = Whole(5)
                  /\ Mul(r.u, r.u) = Rat(25, 2)

C7_Witness ==
    /\ Done("find_optimal")
    /\ call.args = [p1 |-> Whole(2), p2 |-> Whole(1), alpha |-> Rat(1, 2),
                    beta |-> Rat(1, 2), m |-> Whole(10)]
    /\ call.ret.x1 = Rat(5, 2)

(* C9: isoquant round trip: for x1, alpha, beta, u > 0 the value           *)
(* x2 = isoquant(x1, alpha, beta, u) satisfies utility(x1, alpha, x2,      *)
(* beta) = u.                                                              *)
C9_IsoquantRoundTrip ==
    (/\ Done("isoquant")
     /\ Positive(call.args.x1) /\ Positive(call.args.alpha)
     /\ Positive(call.args.beta) /\ Positive(call.args.u)) =>
        /\ IsNum(call.ret)
        /\ utility(call.args.x1, call.args.alpha, call.ret, call.args.beta)
             = call.args.u

\* A round trip through an irrational x2, with an irrational target u.
C9_Witness ==
    /\ Done("isoquant")
    /\ Positive(call.args.x1) /\ Positive(call.args.beta)
    /\ ~IsRational(call.args.u)
    /\ call.args.alpha # call.args.beta
    /\ IsNum(call.ret) /\ ~IsRational(call.ret)

(* C10: budget line: for all m, x1, p1 and p2 # 0, budgetconst(m, p1, p2,  *)
(* x1) returns x2 = m/p2 - (p1/p2)*x1 = (m - p1*x1)/p2, and the bundle     *)
(* (x1, x2) costs exactly m: p1*x1 + p2*x2 = m.                            *)
C10_BudgetLine ==
    (Done("budgetconst") /\ ~IsZero(call.args.p2)) =>
        LET a == call.args
        IN  /\ IsNum(call.ret)
            /\ Mul(call.ret, a.p2) = Sub(a.m, Mul(a.p1, a.x1))
            /\ Cost(a.x1, call.ret, a.p1, a.p2) = a.m

C10_Witness ==
    /\ Done("budgetconst")
    /\ call.args.p2 = Whole(2) /\ call.args.p1 = Whole(1)
    /\ call.args.x1 = Rat(3, 2) /\ call.args.m = Whole(3)
    /\ call.ret = Rat(3, 4)

C12_CurrentSlidersOnly ==
    /\ fig.args = widget
    /\ fig.opt = find_optimal(widget.p1, widget.p2, widget.alpha, widget.beta,
                              widget.m)
    /\ globals = Defaults

\* At least three sliders have been moved, exponents and a price among
\* them, and the figure of the resulting values is drawn.
C12_Witness ==
    /\ kept # NoCall
    /\ widget.alpha # Defaults.alpha
    /\ widget.beta # Defaults.beta
    /\ widget.alpha # widget.beta
    /\ widget.p1 # Defaults.p1
    /\ fig.drawn
    /\ fig.opt.x1 # kept.ret.x1

(* C13: constant expenditure shares: for positive inputs find_optimal      *)
(* returns p1*x1 = m*alpha/(alpha+beta) and p2*x2 = m*beta/(alpha+beta);   *)
(* so x1 is the same for every other p2 and x2 the same for every other    *)
(* p1.                                                                     *)
C13_ExpenditureShares ==
    (Done("find_optimal") /\ AllPositive(call.args)) =>
        LET a == call.args
            r == call.ret
        IN  /\ r.raised = ""
            /\ Mul(a.p1, r.x1) = Div(Mul(a.m, a.alpha), Add(a.alpha, a.beta))
            /\ Mul(a.p2, r.x2) = Div(Mul(a.m, a.beta), Add(a.alpha, a.beta))
            /\ \A q \in Prices :
                  /\ find_optimal(a.p1, q, a.alpha, a.beta, a.m).x1 = r.x1
                  /\ find_optimal(q, a.p2, a.alpha, a.beta, a.m).x2 = r.x2

\* Unequal exponents and prices: the shares are 4/5 and 1/5 of m = 3.
C13_Witness ==
    /\ Done("find_optimal")
    /\ call.args = [p1 |-> Whole(1), p2 |-> Whole(2), alpha |-> Whole(2),
                    beta |-> Rat(1, 2), m |-> Whole(3)]
    /\ call.ret.x1 = Rat(12, 5)
    /\ call.ret.x2 = Rat(3, 10)
    /\ \E q \in Prices : q # call.args.p2

\* lo <= x <= hi.
Within(x, lo, hi) == IsNum(x) /\ Leq(lo, x) /\ Leq(x, hi)

(* C14: in every state reached by slider changes within the declared       *)
(* ranges (alpha, beta in 0.01..0.99, p1, p2 in 1..10, m in 1..24) the     *)
(* callback's inputs are strictly positive, find_optimal raises no         *)
(* division by zero and returns x1 > 0, x2 > 0, u > 0, and every sampled   *)
(* x1 handed to isoquant is strictly positive and gives a real x2.         *)
C14_PositiveInputs ==
    /\ Within(widget.alpha, Rat(ExpMin, 100), Rat(ExpMax, 100))
    /\ Within(widget.beta, Rat(ExpMin, 100), Rat(ExpMax, 100))
    /\ Within(widget.p1, Whole(PriceMin), Whole(PriceMax))
    /\ Within(widget.p2, Whole(PriceMin), Whole(PriceMax))
    /\ Within(widget.m, Whole(IncomeMin), Whole(IncomeMax))
    /\ AllPositive(fig.args)
    /\ fig.opt.raised = ""
    /\ Positive(fig.opt.x1) /\ Positive(fig.opt.x2) /\ Positive(fig.opt.u)
    /\ fig.drawn
    /\ \A x1 \in Samples :
          /\ Positive(x1)
          /\ Within(x1, Rat(SampleFirst, 10), Rat(SampleLast, 10))
          /\ Positive(fig.x2a[x1])

\* The sliders of p1, p2 and m stand at the lower end of their ranges, the
\* exponents at the lowest and highest value moved to.
C14_Witness ==
    /\ kept # NoCall
    /\ widget.p1 = Whole(PriceMin) /\ widget.p2 = Whole(PriceMin)
    /\ widget.m = Whole(IncomeMin)
    /\ \A v \in SliderValues.alpha : Leq(widget.alpha, v)
    /\ \A v \in SliderValues.beta : Leq(v, widget.beta)
    /\ fig.drawn
    /\ Positive(fig.opt.u) /\ ~IsRational(fig.opt.u)

====
